---- MODULE Spec2Model ----
(***************************************************************************)
(* dlrs: the concurrent job pipeline of src/main.rs (download, unzip,      *)
(* parse into the relational store) and its scheduler.                     *)
(*                                                                         *)
(* One task per job runs process(); main spawns the tasks through a        *)
(* FuturesUnordered bounded by max_threads.  The job collection is behind  *)
(* a std::sync::Mutex (jobs), the store behind a second one (mutex).       *)
(* Every environment failure the code handles with `?` or unwrap() is a    *)
(* nondeterministic outcome of the step that performs the operation,       *)
(* drawn from a budget of MaxFaults failures per behaviour.                *)
(***************************************************************************)
EXTENDS Naturals, Integers, Sequences, FiniteSets, TLC

\* ------------------------------------------------------------------ bounds
MaxJobs == 3
MaxRunJobs == 2
MaxThreads == 2
MaxFaults == 1
MaxChunks == 2
MaxRecords == 2
NbKinds == 2
MaxRuns == 2
MaxNameLen == 4
MaxStream == 2

\* ------------------------------------------------------ program constants
\* parse(): the entity kinds in the order of the do_load_se_file! calls, and
\* the completion percentage each call passes.
EntityKinds == <<"Badge", "Comment", "PostHistory", "PostLink", "Post", "Tag", "User", "Vote">>
Completion == <<0, 10, 40, 50, 60, 70, 80, 90>>
\* The kinds the model runs: the first NbKinds calls of parse().
Kinds == 1..NbKinds

\* ---------------------------------------------------------- the environment
\* A file path is the sequence of the dot-separated parts of its file name
\* (all archives live in config.data_path).
PathA == <<"a", "7z">>
PathAX == <<"a", "x", "7z">>
PathB == <<"b", "7z">>
FilePaths == {PathA, PathAX, PathB}
\* A dump whose entries add up to less than 100 bytes.
PathC == <<"c", "7z">>
\* A partial dump that lacks the last entity file.
PathD == <<"d", "7z">>
AllPaths == FilePaths \cup {PathC, PathD}

\* The archive behind a path: the entity files it bundles (kind index ->
\* number of <row/> records).  PathAX is a partial dump that lacks the
\* first entity file; PathB is a small dump.
ArchiveKinds(path) ==
  IF path = PathAX THEN Kinds \ {1}
  ELSE IF path = PathD THEN Kinds \ {NbKinds}
  ELSE Kinds
ArchiveRecords(path, k) == IF path \in {PathB, PathC} THEN 1 ELSE MaxRecords
\* Declared (uncompressed) size of an entry, in bytes.
EntrySize(path, k) ==
  IF path = PathC THEN 99 \div NbKinds ELSE 100 * ArchiveRecords(path, k)
\* The length the server reports for the archive, in chunks of the body.
RemoteLength(path) == MaxChunks
\* The length of the body of a response whose status is not a success (an
\* error page): not the length of the archive.
ErrorBodyLength(path) == RemoteLength(path) - 1
UrlOf(path) ==
  IF path = PathA THEN "http://dumps/a.7z"
  ELSE IF path = PathAX THEN "http://dumps/a.x.7z"
  ELSE IF path = PathB THEN "http://dumps/b.7z"
  ELSE IF path = PathD THEN "http://dumps/d.7z"
  ELSE "http://dumps/c.7z"

\* ------------------------------------------------------------ pure helpers
\* get_data_path: parent joined with the file stem (the name without its
\* last extension).
get_data_path(filepath) == SubSeq(filepath, 1, Len(filepath) - 1)

\* get_site_from_filepath, applied to <data path>/<File>.xml: pop() the file
\* name, then file_stem() of the directory, which drops a last dot-suffix.
get_site_from_filepath(dir) == IF Len(dir) > 1 THEN SubSeq(dir, 1, Len(dir) - 1) ELSE dir

\* format!("{}_{}", site, table_suffix)
TableName(filepath, k) == <<get_site_from_filepath(get_data_path(filepath)), EntityKinds[k]>>

Sites == {get_site_from_filepath(get_data_path(p)) : p \in AllPaths}
TableNames == {<<s, EntityKinds[k]>> : s \in Sites, k \in Kinds}
DataPaths == {get_data_path(p) : p \in AllPaths}
\* A row: the source directory and the index of the record; the record's id
\* column is its index in its file.
Rows == DataPaths \X (1..(MaxRecords + 1))
RowId(row) == row[2]

\* State values of a job.
Wait == [tag |-> "Wait"]
Done == [tag |-> "Done"]
Downloading(d, t) == [tag |-> "Downloading", done |-> d, total |-> t]
Unzipping(p) == [tag |-> "Unzipping", percent |-> p]
Parsing(p, f) == [tag |-> "Parsing", percent |-> p, file |-> f]
Error(msg) == [tag |-> "Error", msg |-> msg]

Min(a, b) == IF a < b THEN a ELSE b

\* format!("{}", n) of a small number.
Decimal(n) == <<"0", "1", "2", "3", "4", "5", "6", "7", "8", "9">>[n + 1]

\* --------------------------------------------------------------- variables
VARIABLES
  max_threads,    \* config.max_threads
  jobs,           \* the job collection: sequence of [url, filepath, state]
  jobs_poisoned,  \* the jobs Mutex was poisoned by a panic under its guard
  main_pc,        \* position of main
  index,          \* the for loop's index (1-based)
  tokio_jobs,     \* the join handles still in the FuturesUnordered
  pc,             \* position of each job's task
  loc,            \* locals of each task
  stage_log,      \* per job: the stages process() started and their results
  mutex,          \* holder of the write token (0: free)
  txn,            \* per task: the open transaction of its connection
  store,          \* the committed tables of the database file
  fs_archive,     \* local archive files: path -> length (-1: no file)
  fs_files,       \* extracted files: <<data path, kind>> -> size (-1: no file)
  faults,         \* the environment failures so far: the job each one hit (0: all)
  run,            \* number of the current run of the program
  body_bytes,     \* per job: body chunks pulled from the network in this run
  prev_log,       \* per job: stage_log at the end of the previous run
  prev_run,       \* the job states, the number of failures and the bad responses
                  \* at the end of the previous run
  bad_status,     \* the jobs whose GET was answered with a non-success status
  key,            \* sql_utils: the field name given to sanitize_key
  column_name,    \* sql_utils: the column name sanitize_key returned
  field_name,     \* test.rs: the field name to_pascal_case returned
  records,        \* inject(): the records of the stream still to read
  count,          \* inject(): count
  create_stmt,    \* to_init_table: the columns and types of the CREATE statement
  insert_stmt,    \* to_init_table: the columns and placeholders of the INSERT statement
  bindings,       \* bind_stmt: the values bound to the INSERT statement
  de_row,         \* from_row: the stored row, its column names and the target type
  column_index,   \* RowExtractor: column_index
  decoded,        \* from_row: the fields the visitor of the target type was given
  jobs_guard,     \* holder of the guard of the jobs Mutex (0: free)
  de_result       \* from_row: "key" or "value" (the call of the MapAccess that
                  \* comes next), then "Ok", "Err" or "panicked"

vars == <<max_threads, jobs, jobs_poisoned, main_pc, index, tokio_jobs, pc, loc,
          stage_log, mutex, txn, store, fs_archive, fs_files, faults, run,
          body_bytes, prev_log, prev_run, bad_status, key, column_name,
          field_name, records, count, create_stmt, insert_stmt, bindings,
          de_row, column_index, decoded, de_result, jobs_guard>>

JobIds == 1..Len(jobs)
NoLoc == [cl |-> 0, k |-> 0, n |-> 0]
NoTxn == [open |-> FALSE, created |-> FALSE, rows |-> {}]

\* The variables no step of the pipeline changes: those of the statement
\* builders of sql_utils and of the row decoder, and the guard of jobs, which
\* a step of a task takes and drops within one statement.
decoder == <<de_row, column_index, decoded, de_result>>
pure == <<key, column_name, field_name, records, count, create_stmt, insert_stmt, bindings,
          decoder, jobs_guard>>
loop == <<max_threads, main_pc, index, tokio_jobs>>
runs == <<run, prev_log, prev_run>>
sched == <<loop, runs, bad_status, pure>>
db == <<mutex, txn, store>>
fs == <<fs_archive, fs_files>>

\* ------------------------------------------------------------------- Init
\* create_job_list / the directory scan of main: the job lists of at most
\* MaxJobs jobs over distinct archive names.
JobLists == {s \in UNION {[1..n -> FilePaths] : n \in 1..MaxJobs} :
               \A a, b \in DOMAIN s : a # b => s[a] # s[b]}

\* main up to the scheduler loop.  Either the jobs come from the site list
\* (every job has a url, nothing is on disk yet) or from the scan of the
\* data directory (no url, the archives are there).
DecoderIdle == de_row = <<>> /\ column_index = 0 /\ decoded = <<>> /\ de_result = ""
PureIdle ==
  /\ key = <<>> /\ column_name = <<>> /\ field_name = <<>>
  /\ records = <<>> /\ count = 0
  /\ create_stmt = <<>> /\ insert_stmt = <<>> /\ bindings = <<>>
  /\ DecoderIdle

InitWith(lists) ==
  /\ max_threads \in 0..MaxThreads
  /\ \E list \in lists, scanned \in BOOLEAN :
       /\ jobs = [i \in DOMAIN list |->
                    [url |-> IF scanned THEN "" ELSE UrlOf(list[i]),
                     filepath |-> list[i], state |-> Wait]]
       /\ fs_archive = [p \in AllPaths |->
                          IF scanned /\ (\E i \in DOMAIN list : list[i] = p)
                          THEN RemoteLength(p) ELSE -1]
  /\ jobs_poisoned = FALSE
  /\ jobs_guard = 0
  /\ main_pc = "spawn"
  /\ index = 1
  /\ tokio_jobs = {}
  /\ pc = [i \in DOMAIN jobs |-> "unspawned"]
  /\ loc = [i \in DOMAIN jobs |-> NoLoc]
  /\ stage_log = [i \in DOMAIN jobs |-> <<>>]
  /\ mutex = 0
  /\ txn = [i \in DOMAIN jobs |-> NoTxn]
  /\ store = [t \in TableNames |-> [exists |-> FALSE, rows |-> {}]]
  /\ fs_files = [f \in DataPaths \X Kinds |-> -1]
  /\ faults = <<>>
  /\ run = 1
  /\ body_bytes = [i \in DOMAIN jobs |-> 0]
  /\ prev_log = [i \in DOMAIN jobs |-> <<>>]
  /\ prev_run = [states |-> [i \in DOMAIN jobs |-> Wait], faults |-> 0, bad_status |-> {}]
  /\ bad_status = {}
  /\ PureIdle

Init == InitWith(JobLists)

\* ------------------------------------------------------- task bookkeeping
Ended(i) == pc[i] \in {"finished", "panicked"}

\* An environment failure may happen while the budget lasts.
MayFail == Len(faults) < MaxFaults
Failure(i) == faults' = Append(faults, i)
NoFailure == faults' = faults

Stages == {"download", "unzip", "parse"}

Goto(i, p, l) ==
  /\ pc' = [pc EXCEPT ![i] = p]
  /\ loc' = [loc EXCEPT ![i] = l]

\* The step that enters a stage function (pc is the stage's name) records
\* the call.
StartedNow(i) == IF pc[i] \in Stages THEN <<<<pc[i], "start">>>> ELSE <<>>
Log(i, events) == stage_log' = [stage_log EXCEPT ![i] = @ \o StartedNow(i) \o events]

\* The task goes on inside its stage.
Continue(i, p, l) ==
  /\ Goto(i, p, l)
  /\ Log(i, <<>>)

\* A panic of the task (an unwrap() on Err): the task ends where it is and
\* tokio reports it through the join handle; the job's state stays as it was.
Panic(i) ==
  /\ Goto(i, "panicked", NoLoc)
  /\ Log(i, <<>>)
  /\ jobs' = jobs

\* The message of the Error state process() sets for a failed stage.
\* format!("download error: {} ({})", e, url), format!("decompression error: {}", e),
\* format!("parsing error: {}", e): the message as its sequence of parts.
ErrorMessage(i, stage, e) ==
  IF stage = "download" THEN <<"download error:">> \o e \o <<jobs[i].url>>
  ELSE IF stage = "unzip" THEN <<"decompression error:">> \o e
  ELSE <<"parsing error:">> \o e

\* The stage after a stage in process().
NextStage(stage) ==
  IF stage = "download" THEN "unzip" ELSE IF stage = "unzip" THEN "parse" ELSE "finished"

\* An Err arm without its `return Err(e)`: the Error state is set and process()
\* falls through to the next stage.
StageFailedNoReturn(i, stage, e) ==
  /\ Log(i, <<<<stage, "err">>>>)
  /\ IF jobs_poisoned
     THEN /\ Goto(i, "panicked", NoLoc)
          /\ jobs' = jobs
     ELSE /\ Goto(i, NextStage(stage), NoLoc)
          /\ jobs' = [jobs EXCEPT ![i].state = Error(ErrorMessage(i, stage, e))]

\* An Err arm that calls the failed stage again instead of returning.
StageFailedRetry(i, stage, e) ==
  /\ Log(i, <<<<stage, "err">>>>)
  /\ Goto(i, IF jobs_poisoned THEN "panicked" ELSE stage, NoLoc)
  /\ jobs' = jobs

\* process(), the Err arm of a stage: lock the jobs, set the Error state,
\* return.  jobs.lock().unwrap() panics on a poisoned mutex.
StageFailed(i, stage, e) ==
  /\ Log(i, <<<<stage, "err">>>>)
  /\ IF jobs_poisoned
     THEN /\ Goto(i, "panicked", NoLoc)
          /\ jobs' = jobs
     ELSE /\ Goto(i, "finished", NoLoc)
          /\ jobs' = [jobs EXCEPT ![i].state = Error(ErrorMessage(i, stage, e))]

\* process(), the Ok arm of a stage: call the next stage.
StageOk(i, stage, next) ==
  /\ Log(i, <<<<stage, "ok">>>>)
  /\ Goto(i, next, NoLoc)

\* --------------------------------------------------------------- download
\* A download() without the size comparison.
NeverDownloaded(path, content_length) == FALSE

\* download(), the size comparison that lets a run skip the transfer.
AlreadyDownloaded(path, content_length) == fs_archive[path] = content_length

\* download() up to the content length of the response.
DownloadStart(i) ==
  /\ pc[i] = "download"
  /\ UNCHANGED <<loop, runs, pure, db, fs, jobs_poisoned, body_bytes>>
  /\ \/ /\ jobs_poisoned
        /\ Panic(i) /\ NoFailure
        /\ UNCHANGED bad_status
     \/ /\ ~jobs_poisoned /\ jobs[i].url = ""
        /\ StageOk(i, "download", "unzip")
        /\ jobs' = jobs /\ NoFailure
        /\ UNCHANGED bad_status
     \/ /\ ~jobs_poisoned /\ jobs[i].url # "" /\ MayFail
        /\ \E e \in {"Failed to GET", "Failed to get content length"} :
             StageFailed(i, "download", <<e>>)
        /\ Failure(i)
        /\ UNCHANGED bad_status
     \/ \* the server answers with an error status and an error page: send()
        \* returns Ok and the status of the response is not looked at
        /\ ~jobs_poisoned /\ jobs[i].url # "" /\ MayFail
        /\ bad_status' = bad_status \cup {i}
        /\ Continue(i, "dl_state", [NoLoc EXCEPT !.cl = ErrorBodyLength(jobs[i].filepath)])
        /\ jobs' = jobs /\ Failure(i)
     \/ /\ ~jobs_poisoned /\ jobs[i].url # ""
        /\ Continue(i, "dl_state", [NoLoc EXCEPT !.cl = RemoteLength(jobs[i].filepath)])
        /\ jobs' = jobs /\ NoFailure
        /\ UNCHANGED bad_status

\* download(): set Downloading((0, content_length)), then look for a local
\* file of that length, else create the file.
DownloadCheck(i) ==
  /\ pc[i] = "dl_state"
  /\ UNCHANGED <<sched, db, fs_files, jobs_poisoned, body_bytes>>
  /\ LET path == jobs[i].filepath
         cl == loc[i].cl
     IN \/ /\ jobs_poisoned
           /\ Panic(i) /\ UNCHANGED fs_archive /\ NoFailure
        \/ /\ ~jobs_poisoned /\ MayFail
           /\ StageFailed(i, "download", <<"display">>)
           /\ UNCHANGED fs_archive /\ Failure(i)
        \/ /\ ~jobs_poisoned /\ AlreadyDownloaded(path, cl)
           /\ jobs' = [jobs EXCEPT ![i].state = Downloading(0, cl)]
           /\ StageOk(i, "download", "unzip")
           /\ UNCHANGED fs_archive /\ NoFailure
        \/ /\ ~jobs_poisoned /\ ~AlreadyDownloaded(path, cl) /\ MayFail
           /\ StageFailed(i, "download", <<"create">>)
           /\ UNCHANGED fs_archive /\ Failure(i)
        \/ /\ ~jobs_poisoned /\ ~AlreadyDownloaded(path, cl)
           /\ jobs' = [jobs EXCEPT ![i].state = Downloading(0, cl)]
           /\ fs_archive' = [fs_archive EXCEPT ![path] = 0]
           /\ Continue(i, "dl_chunk", loc[i])
           /\ NoFailure

\* download(), one turn of the chunk loop; loc.n is `downloaded`.
DownloadChunk(i) ==
  /\ pc[i] = "dl_chunk"
  /\ UNCHANGED <<sched, db, fs_files, jobs_poisoned>>
  /\ LET path == jobs[i].filepath
         cl == loc[i].cl
         n == loc[i].n
         new == Min(n + 1, cl)
     IN \/ /\ n = cl
           /\ StageOk(i, "download", "unzip")
           /\ UNCHANGED <<jobs, fs_archive, body_bytes>> /\ NoFailure
        \/ /\ n < cl /\ MayFail
           /\ StageFailed(i, "download", <<"Error while downloading file">>)
           /\ UNCHANGED <<fs_archive, body_bytes>> /\ Failure(i)
        \/ /\ n < cl /\ MayFail
           /\ body_bytes' = [body_bytes EXCEPT ![i] = @ + 1]
           /\ StageFailed(i, "download", <<"Error while writing to file">>)
           /\ UNCHANGED fs_archive /\ Failure(i)
        \/ /\ n < cl
           /\ body_bytes' = [body_bytes EXCEPT ![i] = @ + 1]
           /\ fs_archive' = [fs_archive EXCEPT ![path] = @ + 1]
           /\ \/ /\ jobs_poisoned
                 /\ Panic(i) /\ NoFailure
              \/ /\ ~jobs_poisoned /\ MayFail
                 /\ StageFailed(i, "download", <<"display">>)
                 /\ Failure(i)
              \/ /\ ~jobs_poisoned
                 /\ jobs' = [jobs EXCEPT ![i].state = Downloading(new, cl)]
                 /\ Continue(i, "dl_chunk", [loc[i] EXCEPT !.n = new])
                 /\ NoFailure

\* ------------------------------------------------------------------ unzip
\* unzip(): total_size, the sum of the declared sizes of the entries.
TotalSize(path) ==
  LET RECURSIVE Sum(_)
      Sum(S) == IF S = {} THEN 0
                ELSE LET e == CHOOSE x \in S : TRUE
                     IN EntrySize(path, e) + Sum(S \ {e})
  IN Sum(ArchiveKinds(path))

\* vec![0; (total_size as f32 / 100.0) as usize]
BufLen(path) == TotalSize(path) \div 100

\* ((uncompressed_size as f32 / total_size as f32) * 100.0) as u8
Percent(uncompressed_size, total_size) ==
  IF total_size = 0 THEN 0 ELSE (uncompressed_size * 100) \div total_size

\* The entries for_each_entries has still to visit after entry k (0: none yet).
EntriesAfter(path, k) == {e \in ArchiveKinds(path) : e > k}
NextEntry(path, k) == CHOOSE e \in EntriesAfter(path, k) : \A f \in EntriesAfter(path, k) : e <= f

\* unzip(), the size comparison that lets a run skip an entry.
AlreadyUnzipped(dest, size) == fs_files[dest] = size

\* A closure that answers Ok(false): for_each_entries stops after the entry.
AfterEntryStop(i, e, uncompressed_size) == StageOk(i, "unzip", "parse")

\* unzip() returns Ok after the last entry, else the closure runs again.
AfterEntry(i, e, uncompressed_size) ==
  IF EntriesAfter(jobs[i].filepath, e) = {}
  THEN StageOk(i, "unzip", "parse")
  ELSE Continue(i, "unzip_entry", [NoLoc EXCEPT !.k = e, !.n = uncompressed_size])

\* unzip() up to for_each_entries: SevenZReader::open reads the archive.
UnzipOpen(i) ==
  /\ pc[i] = "unzip"
  /\ UNCHANGED <<sched, db, fs, jobs_poisoned, body_bytes>>
  /\ LET path == jobs[i].filepath
         complete == fs_archive[path] = RemoteLength(path)
     IN \/ /\ jobs_poisoned
           /\ Panic(i) /\ NoFailure
        \/ /\ ~jobs_poisoned /\ (~complete \/ MayFail)
           /\ StageFailed(i, "unzip", <<"open">>)
           /\ faults' = IF complete THEN Append(faults, i) ELSE faults
        \/ /\ ~jobs_poisoned /\ complete
           /\ jobs' = jobs /\ NoFailure
           /\ IF ArchiveKinds(path) = {}
              THEN StageOk(i, "unzip", "parse")
              ELSE Continue(i, "unzip_entry", NoLoc)

\* unzip(), the closure of for_each_entries for one entry; loc.k is the
\* entry visited last and loc.n is uncompressed_size.
UnzipEntry(i) ==
  /\ pc[i] = "unzip_entry"
  /\ UNCHANGED <<sched, db, fs_archive, body_bytes>>
  /\ LET path == jobs[i].filepath
         e == NextEntry(path, loc[i].k)
         dest == <<get_data_path(path), e>>
         size == EntrySize(path, e)
         buf == BufLen(path)
         first == Min(buf, size)
         total == TotalSize(path)
     IN \/ \* create_dir_all(..).unwrap() or File::create(..).unwrap() panics
           /\ MayFail
           /\ Panic(i) /\ Failure(i)
           /\ UNCHANGED <<fs_files, jobs_poisoned>>
        \/ /\ AlreadyUnzipped(dest, size)
           /\ AfterEntry(i, e, loc[i].n)
           /\ jobs' = jobs /\ NoFailure
           /\ UNCHANGED <<fs_files, jobs_poisoned>>
        \/ \* an empty buffer: the first read returns 0 bytes
           /\ ~AlreadyUnzipped(dest, size) /\ buf = 0
           /\ fs_files' = [fs_files EXCEPT ![dest] = 0]
           /\ AfterEntry(i, e, loc[i].n)
           /\ jobs' = jobs /\ NoFailure
           /\ UNCHANGED jobs_poisoned
        \/ \* reader.read or file.write_all returns Err
           /\ ~AlreadyUnzipped(dest, size) /\ buf > 0 /\ MayFail
           /\ fs_files' = [fs_files EXCEPT ![dest] = 0]
           /\ StageFailed(i, "unzip", <<"io">>) /\ Failure(i)
           /\ UNCHANGED jobs_poisoned
        \/ \* the jobs mutex is poisoned: jobs.lock().unwrap() panics
           /\ ~AlreadyUnzipped(dest, size) /\ buf > 0 /\ jobs_poisoned
           /\ fs_files' = [fs_files EXCEPT ![dest] = first]
           /\ Panic(i) /\ NoFailure
           /\ UNCHANGED jobs_poisoned
        \/ \* update_display(..).unwrap() panics under the guard of jobs
           /\ ~AlreadyUnzipped(dest, size) /\ buf > 0 /\ ~jobs_poisoned /\ MayFail
           /\ fs_files' = [fs_files EXCEPT ![dest] = first]
           /\ jobs' = [jobs EXCEPT ![i].state = Unzipping(Percent(loc[i].n + first, total))]
           /\ jobs_poisoned' = TRUE
           /\ Goto(i, "panicked", NoLoc) /\ Log(i, <<>>)
           /\ Failure(i)
        \/ /\ ~AlreadyUnzipped(dest, size) /\ buf > 0 /\ ~jobs_poisoned
           /\ fs_files' = [fs_files EXCEPT ![dest] = size]
           /\ jobs' = [jobs EXCEPT ![i].state = Unzipping(Percent(loc[i].n + size, total))]
           /\ AfterEntry(i, e, loc[i].n + size)
           /\ NoFailure
           /\ UNCHANGED jobs_poisoned

\* ------------------------------------------------------------------ parse
\* Taking and dropping the guard of the write token (Mutex<bool>).
Acquire(i) == mutex = 0 /\ mutex' = i
Release(i) == mutex' = IF mutex = i THEN 0 ELSE mutex

\* A table_exists() that does not take the write token.
NoAcquire(i) == mutex' = mutex

\* table_exists(): let _mutex = mutex.lock().unwrap()
TableExistsAcquire(i) == Acquire(i)
\* inject(): let _lock = mutex.lock().unwrap()
InjectAcquire(i) == Acquire(i)

\* A do_load_se_file! that loads whatever the existence check answers.
ShouldLoadAlways(ok, result) == ok

\* do_load_se_file!: `if let Ok(result) = table_exists(..) && !result`
ShouldLoad(ok, result) == ok /\ ~result

\* The records quick_xml reads from an extracted file: the <row/> elements
\* of a complete file, none from an empty one.
FileRecords(path, k) ==
  IF fs_files[<<get_data_path(path), k>>] = EntrySize(path, k)
  THEN ArchiveRecords(path, k) ELSE 0

\* A failed inject() whose statements were not in a transaction: what was
\* executed so far stays in the database file.
StoreKeepsPartial(t, tx) ==
  [store EXCEPT ![t] = [exists |-> @.exists \/ tx.created, rows |-> @.rows \cup tx.rows]]

\* The database file after the connection of a failed inject() is dropped:
\* the open transaction is rolled back.
StoreAfterRollback(t, tx) == store
\* The database file after END TRANSACTION.
StoreAfterCommit(t, tx) ==
  [store EXCEPT ![t] = [exists |-> @.exists \/ tx.created, rows |-> @.rows \cup tx.rows]]

\* process() after parse() returned Ok: set Done.
ProcessDone(i) ==
  /\ Log(i, <<<<"parse", "ok">>>>)
  /\ IF jobs_poisoned
     THEN /\ Goto(i, "panicked", NoLoc)
          /\ jobs' = jobs
     ELSE /\ Goto(i, "finished", NoLoc)
          /\ jobs' = [jobs EXCEPT ![i].state = Done]

\* parse() after the do_load_se_file! of kind k.
AfterKind(i, k) ==
  IF k < NbKinds
  THEN Continue(i, "load_next", [NoLoc EXCEPT !.k = k + 1]) /\ jobs' = jobs
  ELSE ProcessDone(i)

\* do_load_se_file! up to the lock of table_exists().
TableExistsLock(i) ==
  /\ pc[i] \in {"parse", "load_next"}
  /\ UNCHANGED <<sched, fs, txn, store, jobs_poisoned, body_bytes>>
  /\ LET k == IF pc[i] = "parse" THEN 1 ELSE loc[i].k
     IN \/ /\ jobs_poisoned
           /\ Panic(i) /\ NoFailure
           /\ UNCHANGED mutex
        \/ /\ ~jobs_poisoned
           /\ TableExistsAcquire(i)
           /\ Continue(i, "table_exists", [NoLoc EXCEPT !.k = k])
           /\ jobs' = jobs /\ NoFailure

\* table_exists() under the lock, and the test of do_load_se_file! on it.
TableExists(i) ==
  /\ pc[i] = "table_exists"
  /\ UNCHANGED <<sched, fs, txn, store, jobs_poisoned, body_bytes>>
  /\ Release(i)
  /\ LET k == loc[i].k
         t == TableName(jobs[i].filepath, k)
     IN \/ /\ MayFail /\ Failure(i)
           /\ IF ShouldLoad(FALSE, FALSE)
              THEN Continue(i, "load", loc[i]) /\ jobs' = jobs
              ELSE AfterKind(i, k)
        \/ /\ NoFailure
           /\ IF ShouldLoad(TRUE, store[t].exists)
              THEN Continue(i, "load", loc[i]) /\ jobs' = jobs
              ELSE AfterKind(i, k)

\* do_load_se_file!, the body of the if up to the call of inject().
LoadFile(i) ==
  /\ pc[i] = "load"
  /\ UNCHANGED <<sched, fs, db, jobs_poisoned, body_bytes>>
  /\ LET k == loc[i].k
         file == <<get_data_path(jobs[i].filepath), k>>
     IN \/ /\ jobs_poisoned
           /\ Panic(i) /\ NoFailure
        \/ /\ ~jobs_poisoned /\ MayFail
           /\ StageFailed(i, "parse", <<"display">>) /\ Failure(i)
        \/ /\ ~jobs_poisoned /\ fs_files[file] = -1
           /\ StageFailed(i, "parse", <<"file do not exists">>) /\ NoFailure
        \/ /\ ~jobs_poisoned /\ fs_files[file] # -1
           /\ jobs' = [jobs EXCEPT ![i].state = Parsing(Completion[k], file)]
           /\ Continue(i, "inject", loc[i])
           /\ NoFailure

\* inject(): take the write token, open the store, BEGIN TRANSACTION.
InjectBegin(i) ==
  /\ pc[i] = "inject"
  /\ UNCHANGED <<sched, fs, store, jobs_poisoned, body_bytes>>
  /\ \/ /\ MayFail /\ mutex = 0
        /\ StageFailed(i, "parse", <<"sqlite">>) /\ Failure(i)
        /\ UNCHANGED <<mutex, txn>>
     \/ /\ InjectAcquire(i)
        /\ txn' = [txn EXCEPT ![i] = [NoTxn EXCEPT !.open = TRUE]]
        /\ Continue(i, "inject_row", loc[i])
        /\ jobs' = jobs /\ NoFailure

\* inject(), one turn of the event loop; loc.n is `count`.
InjectRow(i) ==
  /\ pc[i] = "inject_row"
  /\ UNCHANGED <<sched, fs, jobs_poisoned, body_bytes>>
  /\ LET k == loc[i].k
         path == jobs[i].filepath
         t == TableName(path, k)
         row == <<get_data_path(path), loc[i].n + 1>>
         conflict == \E r \in store[t].rows \cup txn[i].rows : RowId(r) = RowId(row)
         tx == [txn[i] EXCEPT !.created = TRUE, !.rows = @ \cup {row}]
     IN \/ \* Event::Eof
           /\ loc[i].n = FileRecords(path, k)
           /\ Continue(i, "inject_end", loc[i])
           /\ jobs' = jobs /\ NoFailure
           /\ UNCHANGED db
        \/ \* the reader, the deserializer or a statement returns Err
           /\ loc[i].n < FileRecords(path, k) /\ MayFail
           /\ store' = StoreAfterRollback(t, txn[i])
           /\ txn' = [txn EXCEPT ![i] = NoTxn]
           /\ Release(i)
           /\ StageFailed(i, "parse", <<"Error at position", Decimal(loc[i].n)>>) /\ Failure(i)
        \/ \* the insert violates the uniqueness of id
           /\ loc[i].n < FileRecords(path, k) /\ conflict
           /\ store' = StoreAfterRollback(t, tx)
           /\ txn' = [txn EXCEPT ![i] = NoTxn]
           /\ Release(i)
           /\ StageFailed(i, "parse", <<"constraint">>) /\ NoFailure
        \/ /\ loc[i].n < FileRecords(path, k) /\ ~conflict
           /\ txn' = [txn EXCEPT ![i] = tx]
           /\ Continue(i, "inject_row", [loc[i] EXCEPT !.n = @ + 1])
           /\ jobs' = jobs /\ NoFailure
           /\ UNCHANGED <<mutex, store>>

\* inject(): END TRANSACTION and the return.
InjectEnd(i) ==
  /\ pc[i] = "inject_end"
  /\ UNCHANGED <<sched, fs, jobs_poisoned, body_bytes>>
  /\ LET k == loc[i].k
         t == TableName(jobs[i].filepath, k)
     IN /\ txn' = [txn EXCEPT ![i] = NoTxn]
        /\ Release(i)
        /\ \/ /\ MayFail /\ Failure(i)
              /\ store' = StoreAfterRollback(t, txn[i])
              /\ StageFailed(i, "parse", <<"sqlite">>)
           \/ /\ NoFailure
              /\ store' = StoreAfterCommit(t, txn[i])
              /\ AfterKind(i, k)

\* ------------------------------------------------------------------- main
\* main: `if tokio_jobs.len() == config.max_threads as usize`
SlotsFull(len) == len = max_threads

\* main: the for loop goes to its next index, or ends.
Advance ==
  /\ index' = index + 1
  /\ main_pc' = IF index + 1 > Len(jobs) THEN "drain" ELSE "spawn"

\* main: tokio_jobs.push(tokio::spawn(process(..., index, ...)))
Spawn ==
  /\ main_pc = "spawn"
  /\ tokio_jobs' = tokio_jobs \cup {index}
  /\ pc' = [pc EXCEPT ![index] = "download"]
  /\ IF SlotsFull(Cardinality(tokio_jobs'))
     THEN main_pc' = "await" /\ index' = index
     ELSE Advance
  /\ UNCHANGED <<max_threads, runs, bad_status, pure, jobs, jobs_poisoned, loc,
                 stage_log, db, fs, faults, body_bytes>>

\* A for loop that waits for every spawned task before it goes on (rounds
\* of max_threads jobs).
AwaitAll ==
  /\ main_pc = "await"
  /\ \A i \in tokio_jobs : Ended(i)
  /\ tokio_jobs' = {}
  /\ Advance
  /\ UNCHANGED <<max_threads, runs, bad_status, pure, jobs, jobs_poisoned, pc, loc,
                 stage_log, db, fs, faults, body_bytes>>

\* main: tokio_jobs.next().await inside the for loop.
AwaitOne ==
  /\ main_pc = "await"
  /\ \E i \in tokio_jobs :
       /\ Ended(i)
       /\ tokio_jobs' = tokio_jobs \ {i}
  /\ Advance
  /\ UNCHANGED <<max_threads, runs, bad_status, pure, jobs, jobs_poisoned, pc, loc,
                 stage_log, db, fs, faults, body_bytes>>

\* main: while let Some(_) = tokio_jobs.next().await {}
DrainOne ==
  /\ main_pc = "drain"
  /\ \E i \in tokio_jobs :
       /\ Ended(i)
       /\ tokio_jobs' = tokio_jobs \ {i}
  /\ UNCHANGED <<max_threads, main_pc, index, runs, bad_status, pure, jobs,
                 jobs_poisoned, pc, loc, stage_log, db, fs, faults, body_bytes>>

\* main after the loops: update_display(&jobs.lock().unwrap()) and return.
Return ==
  /\ main_pc = "drain"
  /\ tokio_jobs = {}
  /\ main_pc' = IF jobs_poisoned THEN "panicked" ELSE "returned"
  /\ UNCHANGED <<max_threads, index, tokio_jobs, runs, bad_status, pure, jobs,
                 jobs_poisoned, pc, loc, stage_log, db, fs, faults, body_bytes>>

\* The ctrl-c handler: std::process::exit(0).  Every task stops where it is
\* and the open transactions are lost with their connections.
Interrupt ==
  /\ main_pc \in {"spawn", "await", "drain"}
  /\ MayFail /\ Failure(0)
  /\ main_pc' = "interrupted"
  /\ pc' = [i \in DOMAIN pc |-> IF pc[i] = "unspawned" \/ Ended(i) THEN pc[i] ELSE "killed"]
  /\ loc' = [i \in DOMAIN loc |-> NoLoc]
  /\ txn' = [i \in DOMAIN txn |-> NoTxn]
  /\ mutex' = 0
  /\ UNCHANGED <<max_threads, index, tokio_jobs, runs, bad_status, pure, jobs,
                 jobs_poisoned, stage_log, store, fs, body_bytes>>

\* The program is run again over the same job list, data directory and
\* database file.
Restart ==
  /\ main_pc \in {"returned", "panicked", "interrupted"}
  /\ run < MaxRuns
  /\ run' = run + 1
  /\ prev_log' = stage_log
  /\ prev_run' = [states |-> [i \in DOMAIN jobs |-> jobs[i].state],
                  faults |-> Len(faults), bad_status |-> bad_status]
  /\ bad_status' = {}
  /\ jobs' = [i \in DOMAIN jobs |-> [jobs[i] EXCEPT !.state = Wait]]
  /\ jobs_poisoned' = FALSE
  /\ main_pc' = "spawn"
  /\ index' = 1
  /\ tokio_jobs' = {}
  /\ pc' = [i \in DOMAIN jobs |-> "unspawned"]
  /\ loc' = [i \in DOMAIN jobs |-> NoLoc]
  /\ stage_log' = [i \in DOMAIN jobs |-> <<>>]
  /\ body_bytes' = [i \in DOMAIN jobs |-> 0]
  /\ UNCHANGED <<max_threads, db, fs, faults, pure>>

Next ==
  \/ Spawn
  \/ AwaitOne
  \/ DrainOne
  \/ Return
  \/ Interrupt
  \/ \E i \in JobIds : DownloadStart(i)
  \/ \E i \in JobIds : DownloadCheck(i)
  \/ \E i \in JobIds : DownloadChunk(i)
  \/ \E i \in JobIds : UnzipOpen(i)
  \/ \E i \in JobIds : UnzipEntry(i)
  \/ \E i \in JobIds : TableExistsLock(i)
  \/ \E i \in JobIds : TableExists(i)
  \/ \E i \in JobIds : LoadFile(i)
  \/ \E i \in JobIds : InjectBegin(i)
  \/ \E i \in JobIds : InjectRow(i)
  \/ \E i \in JobIds : InjectEnd(i)

\* One run of the program.
Spec == Init /\ [][Next]_vars

\* The program run up to MaxRuns times over a list of at most MaxRunJobs jobs.
InitRuns == Init /\ Len(jobs) <= MaxRunJobs
NextRuns == Next \/ Restart
SpecRuns == InitRuns /\ [][NextRuns]_vars

\* One run of the program over a job list with the dump of less than 100
\* bytes.
TinyJobLists == {s \in UNION {[1..n -> {PathC, PathB}] : n \in 1..2} :
                   \A a, b \in DOMAIN s : a # b => s[a] # s[b]}
InitTiny == InitWith(TinyJobLists)
SpecTiny == InitTiny /\ [][Next]_vars

\* The operations with no timeout: the GET and the chunks of the body in
\* download, the statements of table_exists and of inject (under the write
\* token).
NetworkPoints == {"download", "dl_chunk"}
StorePoints == {"table_exists", "inject_row", "inject_end"}

\* An operation of task i never returns: the task stays where it is, with
\* the guards it holds.
Hang(i) ==
  /\ pc[i] \in NetworkPoints \cup StorePoints
  /\ MayFail /\ Failure(i)
  /\ Continue(i, "hung", loc[i])
  /\ UNCHANGED <<sched, db, fs, jobs, jobs_poisoned, body_bytes>>

\* The program run up to MaxRuns times over jobs of different sites, the
\* dump that lacks its last entity file among them.
ResumeJobLists == {s \in UNION {[1..n -> {PathD, PathA}] : n \in 1..2} :
                     \A a, b \in DOMAIN s : a # b => s[a] # s[b]}
InitResume == InitWith(ResumeJobLists)
SpecResume == InitResume /\ [][NextRuns]_vars

\* One run of the program in which every task that can take a step and main
\* are scheduled.
SpecFair == Init /\ [][Next]_vars /\ WF_vars(Next)

\* One run of the program in which an operation may hang; every task that
\* can take a step and main are scheduled (tokio runs every ready task).
NextHang == Next \/ \E i \in JobIds : Hang(i)
SpecHang == InitRuns /\ [][NextHang]_vars /\ WF_vars(Next)

\* ------------------------------------------------------------- the locks
\* The statements of a task that lock a Mutex, named by their line in
\* src/main.rs ("download" is line 166, where the task starts); a task runs
\* from one to the next, and the code between two of them takes no lock.
JobsNodes == {"download", "L168", "L181", "L182", "L204", "L205", "L212", "L244", "L245",
              "L314", "L319", "L320", "L353", "L363", "L364", "L371", "L372", "L378", "L379"}
MutexNodes == {"L301", "L255"}

\* A do_load_se_file! that binds the guard of line 314 with a let: it lives
\* to the end of the block.
DropsGuardLet(node) == node # "L314"

\* The guard a statement takes is a temporary (at 353, 255 and 301 a local
\* of a block or of a function that takes no other lock): it is dropped
\* before the next statement that locks.
DropsGuard(node) == TRUE

To(node, k, n) == [pc |-> node, k |-> k, n |-> n, poison |-> FALSE]
\* parse() after the kind k.
NextKind(k) == IF k < NbKinds THEN {To("L314", k + 1, 0)} ELSE {To("L378", 0, 0)}

\* Where task i can go after the statement it is at: loc.k is the entry of
\* the archive or the kind, loc.n the number of the chunk.
Successors(i) ==
  LET node == pc[i]
      k == loc[i].k
      n == loc[i].n
      entries == ArchiveKinds(jobs[i].filepath)
  IN CASE node = "download" ->
            IF jobs[i].url = "" THEN {To("L212", 0, 0)} ELSE {To("L168", 0, 0)}
       [] node = "L168" -> {To("L181", 0, 0), To("L353", 0, 0)}
       [] node = "L181" -> {To("L182", 0, 0)}
       [] node = "L182" -> {To("L353", 0, 0), To("L212", 0, 0), To("L204", 0, 1)}
       [] node = "L204" -> {To("L205", 0, n)}
       [] node = "L205" ->
            {To("L353", 0, 0), To("L212", 0, 0)}
              \cup (IF n < MaxChunks THEN {To("L204", 0, n + 1)} ELSE {})
       [] node = "L353" -> {To("finished", 0, 0)}
       [] node = "L212" ->
            {To("L363", 0, 0), To("panicked", 0, 0), To("L314", 1, 0)}
              \cup {To("L244", e, 0) : e \in entries}
       [] node = "L244" -> {To("L245", k, 0)}
       [] node = "L245" ->
            {[pc |-> "panicked", k |-> 0, n |-> 0, poison |-> TRUE],
             To("panicked", 0, 0), To("L363", 0, 0), To("L314", 1, 0)}
              \cup {To("L244", e, 0) : e \in {f \in entries : f > k}}
       [] node = "L363" -> {To("L364", 0, 0)}
       [] node = "L364" -> {To("finished", 0, 0)}
       [] node = "L314" -> {To("L301", k, 0), To("L371", 0, 0)}
       [] node = "L301" -> {To("L319", k, 0)} \cup NextKind(k)
       [] node = "L319" -> {To("L320", k, 0)}
       [] node = "L320" -> {To("L371", 0, 0), To("L255", k, 0)}
       [] node = "L255" -> {To("L371", 0, 0)} \cup NextKind(k)
       [] node = "L371" -> {To("L372", 0, 0)}
       [] node = "L372" -> {To("finished", 0, 0)}
       [] node = "L378" -> {To("L379", 0, 0)}
       [] node = "L379" -> {To("finished", 0, 0)}

lock_rest == <<loop, runs, bad_status, key, column_name, field_name, records, count,
               create_stmt, insert_stmt, bindings, decoder, jobs, stage_log, txn, store,
               fs, faults, body_bytes>>

\* lock() of the statement task i is at; loc.cl is 1 once its guard is
\* taken.  A lock held by another task blocks; a lock the task holds itself
\* never comes; lock().unwrap() on the poisoned jobs panics.
LockAcquire(i) ==
  /\ pc[i] \in JobsNodes \cup MutexNodes
  /\ loc[i].cl = 0
  /\ UNCHANGED <<lock_rest, jobs_poisoned>>
  /\ IF pc[i] \in MutexNodes
     THEN /\ mutex \in {0, i}
          /\ jobs_guard' = jobs_guard
          /\ IF mutex = i
             THEN Goto(i, "self_deadlock", loc[i]) /\ mutex' = mutex
             ELSE Goto(i, pc[i], [loc[i] EXCEPT !.cl = 1]) /\ mutex' = i
     ELSE /\ jobs_guard \in {0, i}
          /\ IF jobs_guard = i
             THEN /\ Goto(i, "self_deadlock", loc[i])
                  /\ UNCHANGED <<jobs_guard, mutex>>
             ELSE IF jobs_poisoned
                  THEN /\ Goto(i, "panicked", NoLoc)
                       /\ jobs_guard' = jobs_guard
                       /\ Release(i)
                  ELSE /\ Goto(i, pc[i], [loc[i] EXCEPT !.cl = 1])
                       /\ jobs_guard' = i
                       /\ mutex' = mutex

\* The end of the statement task i is at: its guard is dropped and the task
\* runs to the next statement that locks, or ends; a task that ends drops
\* every guard it holds, and a panic under the guard of jobs poisons it.
LockRelease(i) ==
  /\ pc[i] \in JobsNodes \cup MutexNodes
  /\ loc[i].cl = 1
  /\ UNCHANGED lock_rest
  /\ \E next \in Successors(i) :
       LET ends == next.pc \in {"finished", "panicked"}
           drops == DropsGuard(pc[i]) \/ ends
       IN /\ Goto(i, next.pc, [cl |-> 0, k |-> next.k, n |-> next.n])
          /\ jobs_poisoned' = (jobs_poisoned \/ next.poison)
          /\ jobs_guard' = IF jobs_guard = i /\ (ends \/ (drops /\ pc[i] \in JobsNodes))
                           THEN 0 ELSE jobs_guard
          /\ mutex' = IF mutex = i /\ (ends \/ (drops /\ pc[i] \in MutexNodes))
                      THEN 0 ELSE mutex

\* One run of the program, seen at its lock statements.
NextLocks ==
  \/ Spawn
  \/ AwaitOne
  \/ DrainOne
  \/ Return
  \/ \E i \in JobIds : LockAcquire(i)
  \/ \E i \in JobIds : LockRelease(i)
SpecLocks == InitRuns /\ [][NextLocks]_vars

\* ------------------------------------------------------- column names
\* A name is the sequence of its characters.
UpperChars == {"A", "B"}
LowerChars == {"a", "b"}
DigitChars == {"1"}
AsciiUpper == <<"A", "B", "C", "D", "E", "F", "G", "H", "I", "J", "K", "L", "M",
                "N", "O", "P", "Q", "R", "S", "T", "U", "V", "W", "X", "Y", "Z">>
AsciiLower == <<"a", "b", "c", "d", "e", "f", "g", "h", "i", "j", "k", "l", "m",
                "n", "o", "p", "q", "r", "s", "t", "u", "v", "w", "x", "y", "z">>
is_ascii_uppercase(c) == \E n \in 1..Len(AsciiUpper) : AsciiUpper[n] = c
to_lowercase(c) ==
  IF is_ascii_uppercase(c)
  THEN AsciiLower[CHOOSE n \in 1..Len(AsciiUpper) : AsciiUpper[n] = c]
  ELSE c
to_ascii_uppercase(c) ==
  IF \E n \in 1..Len(AsciiLower) : AsciiLower[n] = c
  THEN AsciiUpper[CHOOSE n \in 1..Len(AsciiLower) : AsciiLower[n] = c]
  ELSE c

\* A sanitize_key whose map() lowers the capitals without the underscore.
SanitizeNoUnderscore(name) == [n \in 1..(Len(name) - 1) |-> to_lowercase(name[n + 1])]

\* sanitize_key: filter out '@', then map every capital to its lower case,
\* with '_' in front of every capital but the first one met.
RECURSIVE SanitizeFrom(_, _)
SanitizeFrom(chars, first) ==
  IF chars = <<>> THEN <<>>
  ELSE LET c == Head(chars)
       IN IF c = "@" THEN SanitizeFrom(Tail(chars), first)
          ELSE IF is_ascii_uppercase(c)
               THEN (IF first THEN <<to_lowercase(c)>> ELSE <<"_", to_lowercase(c)>>)
                      \o SanitizeFrom(Tail(chars), FALSE)
               ELSE <<c>> \o SanitizeFrom(Tail(chars), first)
sanitize_key(name) == SanitizeFrom(name, TRUE)

\* to_pascal_case: the while loop over the bytes of s from index i (1-based
\* here): '_' before the last byte is dropped and the byte after it is
\* raised; else the first byte is raised; else the byte is copied.
RECURSIVE PascalFrom(_, _)
PascalFrom(slice, i) ==
  IF i > Len(slice) THEN <<>>
  ELSE IF slice[i] = "_" /\ i < Len(slice)
       THEN <<to_ascii_uppercase(slice[i + 1])>> \o PascalFrom(slice, i + 2)
       ELSE IF i = 1
            THEN <<to_ascii_uppercase(slice[i])>> \o PascalFrom(slice, i + 1)
            ELSE <<slice[i]>> \o PascalFrom(slice, i + 1)
to_pascal_case(name) == <<"@">> \o PascalFrom(name, 1)

\* The attribute names of the records: '@', a capital, then letters and
\* digits.
AttributeNames ==
  {<<"@", u>> \o t : u \in UpperChars,
     t \in UNION {[1..n -> UpperChars \cup LowerChars \cup DigitChars] : n \in 0..(MaxNameLen - 1)}}

pipeline == <<max_threads, jobs, jobs_poisoned, main_pc, index, tokio_jobs, pc, loc,
              stage_log, mutex, txn, store, fs_archive, fs_files, faults, run,
              body_bytes, prev_log, prev_run, bad_status, jobs_guard>>

\* No job and no run of main: only the functions of sql_utils are applied.
PipelineIdle ==
  /\ max_threads = 0 /\ jobs = <<>> /\ jobs_poisoned = FALSE /\ jobs_guard = 0
  /\ main_pc = "returned" /\ index = 1 /\ tokio_jobs = {}
  /\ pc = <<>> /\ loc = <<>> /\ stage_log = <<>>
  /\ mutex = 0 /\ txn = <<>>
  /\ store = [t \in TableNames |-> [exists |-> FALSE, rows |-> {}]]
  /\ fs_archive = [p \in AllPaths |-> -1]
  /\ fs_files = [f \in DataPaths \X Kinds |-> -1]
  /\ faults = <<>> /\ run = 1 /\ body_bytes = <<>> /\ prev_log = <<>>
  /\ prev_run = [states |-> <<>>, faults |-> 0, bad_status |-> {}]
  /\ bad_status = {}

\* serialize_field of the Serializer: the key of a field becomes a column.
SanitizeKey ==
  /\ key # <<>> /\ column_name = <<>>
  /\ column_name' = sanitize_key(key)
  /\ UNCHANGED <<pipeline, key, field_name, records, count, create_stmt, insert_stmt, bindings,
                 decoder>>

\* next_key_seed of the RowExtractor: a column becomes the key of a field.
ToPascalCase ==
  /\ column_name # <<>> /\ field_name = <<>>
  /\ field_name' = to_pascal_case(column_name)
  /\ UNCHANGED <<pipeline, key, column_name, records, count, create_stmt, insert_stmt, bindings,
                 decoder>>

InitNames ==
  /\ PipelineIdle
  /\ key \in AttributeNames
  /\ column_name = <<>> /\ field_name = <<>>
  /\ records = <<>> /\ count = 0
  /\ create_stmt = <<>> /\ insert_stmt = <<>> /\ bindings = <<>>
  /\ DecoderIdle
NextNames == SanitizeKey \/ ToPascalCase
SpecNames == InitNames /\ [][NextNames]_vars

\* ------------------------------------------------- schema and bindings
\* A field value as serde hands it to a serializer: opt is "plain" for a
\* field of a scalar type, "some" or "none" for a field of an Option type.
\* kind is the native kind of the field's type ("bool", "int", "float",
\* "str", "enum"); a serializer is not told the kind of a None.
Plain(kind, num, text) == [opt |-> "plain", kind |-> kind, num |-> num, text |-> text]
Some(kind, num, text) == [opt |-> "some", kind |-> kind, num |-> num, text |-> text]
None(kind) == [opt |-> "none", kind |-> kind, num |-> 0, text |-> ""]

INTEGER(v) == [type |-> "INTEGER", num |-> v, text |-> ""]
REAL(v) == [type |-> "REAL", num |-> v, text |-> ""]
TEXT(v) == [type |-> "TEXT", num |-> 0, text |-> v]

\* The declared fields of the record types, in declaration order; samples
\* are the values a present field takes.
Decl(name, kind, optional, samples) ==
  [key |-> name, kind |-> kind, optional |-> optional, samples |-> samples]
Num(n) == [num |-> n, text |-> ""]
Txt(t) == [num |-> 0, text |-> t]
Variant(n, v) == [num |-> n, text |-> v]
KeyId == <<"@", "I", "d">>
KeyUserId == <<"@", "U", "s", "e", "r", "I", "d">>
KeyName == <<"@", "N", "a", "m", "e">>
KeyClass == <<"@", "C", "l", "a", "s", "s">>
KeyTagBased == <<"@", "T", "a", "g", "B", "a", "s", "e", "d">>
KeyTagName == <<"@", "T", "a", "g", "N", "a", "m", "e">>
KeyCount == <<"@", "C", "o", "u", "n", "t">>
KeyExcerptPostId == <<"@", "E", "x", "c", "e", "r", "p", "t", "P", "o", "s", "t", "I", "d">>
KeyWikiPostId == <<"@", "W", "i", "k", "i", "P", "o", "s", "t", "I", "d">>
KeyScore == <<"@", "S", "c", "o", "r", "e">>
KeyUserDisplayName == <<"@", "U", "s", "e", "r", "D", "i", "s", "p", "l", "a", "y", "N", "a", "m", "e">>
KeyRatio == <<"@", "R", "a", "t", "i", "o">>
KeyWeight == <<"@", "W", "e", "i", "g", "h", "t">>
Badge ==
  [table |-> "badges",
   fields |-> << Decl(KeyId, "int", FALSE, {Num(1), Num(2)}),
                 Decl(KeyUserId, "int", FALSE, {Num(3)}),
                 Decl(KeyName, "str", FALSE, {Txt("Guru")}),
                 Decl(KeyClass, "enum", FALSE, {Variant(1, "Gold"), Variant(3, "Bronze")}),
                 Decl(KeyTagBased, "bool", FALSE, {Num(0), Num(1)}) >>]
Tag ==
  [table |-> "tags",
   fields |-> << Decl(KeyId, "int", FALSE, {Num(1), Num(2)}),
                 Decl(KeyTagName, "str", FALSE, {Txt("rust")}),
                 Decl(KeyCount, "int", FALSE, {Num(0)}),
                 Decl(KeyExcerptPostId, "int", TRUE, {Num(5)}),
                 Decl(KeyWikiPostId, "int", TRUE, {Num(6)}) >>]
Comment ==
  [table |-> "comments",
   fields |-> << Decl(KeyId, "int", FALSE, {Num(1), Num(2)}),
                 Decl(KeyScore, "int", FALSE, {Num(-1)}),
                 Decl(KeyUserDisplayName, "str", TRUE, {Txt("bob")}),
                 Decl(KeyUserId, "int", TRUE, {Num(4)}) >>]
\* Any other serializable struct of scalars: the float widths.
Measure ==
  [table |-> "measures",
   fields |-> << Decl(KeyId, "int", FALSE, {Num(1), Num(2)}),
                 Decl(KeyRatio, "float", FALSE, {Num(1), Num(2)}),
                 Decl(KeyWeight, "float", TRUE, {Num(3)}) >>]
RecordTypes == {Badge, Tag, Comment, Measure}

FieldValues(decl) ==
  IF decl.optional
  THEN {None(decl.kind)} \cup {Some(decl.kind, x.num, x.text) : x \in decl.samples}
  ELSE {Plain(decl.kind, x.num, x.text) : x \in decl.samples}
RECURSIVE FieldsOf(_)
FieldsOf(decls) ==
  IF decls = <<>> THEN {<<>>}
  ELSE {<<[key |-> Head(decls).key, value |-> v]>> \o rest :
          v \in FieldValues(Head(decls)), rest \in FieldsOf(Tail(decls))}
RecordsOf(T) == {[table |-> T.table, fields |-> f] : f \in FieldsOf(T.fields)}
\* The rows of one XML file: one record type, at least one record.
Streams == UNION {[1..n -> RecordsOf(T)] : T \in RecordTypes, n \in 1..MaxStream}

\* impl ser::Serializer for &mut Serializer: the SqlValue of a value.
SerializerValue(v) ==
  IF v.opt = "none" THEN TEXT("NULL")
  ELSE CASE v.kind = "bool" -> TEXT(IF v.num = 1 THEN "true" ELSE "false")
         [] v.kind = "int" -> INTEGER(v.num)
         [] v.kind = "float" -> REAL(v.num)
         [] v.kind = "str" -> TEXT(v.text)
         [] v.kind = "enum" -> TEXT(v.text)

\* SerializeStruct::serialize_field of the Serializer, field after field:
\* one key and one value are pushed for every field.
RECURSIVE SerializerFields(_, _, _)
SerializerFields(fields, keys, values) ==
  IF fields = <<>> THEN [keys |-> keys, values |-> values]
  ELSE SerializerFields(Tail(fields),
                        Append(keys, sanitize_key(Head(fields).key)),
                        Append(values, SerializerValue(Head(fields).value)))

\* SerializeStruct::end of the Serializer. A statement is kept as its
\* parts: the table, the columns between the first parentheses and, for
\* the insert, the placeholders between the second ones.
ColumnType(column, sql_value) ==
  IF column = <<"i", "d">> THEN "INTEGER PRIMARY KEY UNIQUE" ELSE sql_value.type
to_init_table(value) ==
  LET ser == SerializerFields(value.fields, <<>>, <<>>)
  IN [create_stmt |->
        [table |-> value.table,
         columns |-> [n \in 1..Len(ser.keys) |->
                        [name |-> ser.keys[n],
                         type |-> ColumnType(ser.keys[n], ser.values[n])]]],
      insert_stmt |->
        [table |-> value.table,
         columns |-> ser.keys,
         placeholders |-> [n \in 1..Len(ser.values) |-> "?"]]]

\* A Binder whose serialize_none pushes nothing.
BinderSkipsNone(v, output) ==
  IF v.opt = "none" THEN output
  ELSE Append(output, IF v.kind \in {"int", "float"} THEN ToString(v.num)
                      ELSE IF v.kind = "bool" THEN (IF v.num = 1 THEN "true" ELSE "false")
                      ELSE v.text)

\* impl ser::Serializer for &mut Binder: one string is pushed to output.
BinderValue(v, output) ==
  IF v.opt = "none" THEN Append(output, "NULL")
  ELSE CASE v.kind = "bool" -> Append(output, IF v.num = 1 THEN "true" ELSE "false")
         [] v.kind = "int" -> Append(output, ToString(v.num))
         [] v.kind = "float" -> Append(output, ToString(v.num))
         [] v.kind = "str" -> Append(output, v.text)
         [] v.kind = "enum" -> Append(output, v.text)

\* SerializeStruct::serialize_field of the Binder, field after field.
RECURSIVE BinderFields(_, _)
BinderFields(fields, output) ==
  IF fields = <<>> THEN output
  ELSE BinderFields(Tail(fields), BinderValue(Head(fields).value, output))
bind_stmt(value) == BinderFields(value.fields, <<>>)

NoStmt == [table |-> "", columns |-> <<>>, placeholders |-> <<>>]

\* One Event::Empty of inject: the first record gives the two statements,
\* every record is bound to the prepared insert and inserted.
InjectRecord ==
  /\ count < Len(records)
  /\ LET tag == records[count + 1]
     IN /\ IF count = 0
           THEN /\ create_stmt' = to_init_table(tag).create_stmt
                /\ insert_stmt' = to_init_table(tag).insert_stmt
           ELSE UNCHANGED <<create_stmt, insert_stmt>>
        /\ bindings' = bind_stmt(tag)
  /\ count' = count + 1
  /\ UNCHANGED <<pipeline, key, column_name, field_name, records, decoder>>

InitSql ==
  /\ PipelineIdle
  /\ key = <<>> /\ column_name = <<>> /\ field_name = <<>>
  /\ records \in Streams /\ count = 0
  /\ create_stmt = NoStmt /\ insert_stmt = NoStmt /\ bindings = <<>>
  /\ DecoderIdle
NextSql == InjectRecord
SpecSql == InitSql /\ [][NextSql]_vars

\* ------------------------------------------------------- row decoding
\* The struct of test_struct: no field is renamed.
KeyInt == <<"i", "n", "t">>
KeyLowerName == <<"n", "a", "m", "e">>
KeyTestEnum == <<"t", "e", "s", "t", "_", "e", "n", "u", "m">>
Test ==
  [table |-> "test",
   fields |-> << Decl(KeyInt, "int", FALSE, {Num(1), Num(2), Num(3)}),
                 Decl(KeyLowerName, "str", FALSE, {Txt("Jules"), Txt("Jim")}),
                 Decl(KeyTestEnum, "enum", FALSE, {Variant(1, "Foo"), Variant(2, "Bar")}) >>]
DecodedTypes == RecordTypes \cup {Test}

\* The row that holds a record: one column per field, named as the CREATE
\* statement names it, the values as text, an enum as its number.
StoredValue(v) == IF v.kind = "enum" THEN ToString(v.num) ELSE BinderValue(v, <<>>)[1]
StoredRow(record) ==
  [column_names |-> to_init_table(record).insert_stmt.columns,
   values |-> [n \in 1..Len(record.fields) |-> StoredValue(record.fields[n].value)],
   fields |-> [n \in 1..Len(record.fields) |->
                 [key |-> record.fields[n].key,
                  kind |-> record.fields[n].value.kind,
                  optional |-> record.fields[n].value.opt # "plain"]],
   record |-> record]
StoredRows == {StoredRow(r) : r \in UNION {RecordsOf(T) : T \in DecodedTypes}}

ColumnOf(name) == {n \in 1..Len(de_row.column_names) : de_row.column_names[n] = name}
FieldOf(name) == {n \in 1..Len(de_row.fields) : de_row.fields[n].key = name}
ParseNumber(text) == CHOOSE n \in -1..9 : ToString(n) = text

\* deserialize_option, deserialize_i64, deserialize_str, deserialize_bool and
\* deserialize_enum on the text of a column.
DecodeValue(field, text) ==
  IF field.optional /\ text = "NULL" THEN None(field.kind)
  ELSE LET num == IF field.kind \in {"int", "float", "enum"} THEN ParseNumber(text)
                  ELSE IF text = "true" THEN 1 ELSE 0
           str == IF field.kind = "str" THEN text ELSE ""
       IN [opt |-> IF field.optional THEN "some" ELSE "plain",
           kind |-> field.kind, num |-> num, text |-> str]

\* next_key_seed of the RowExtractor: Ok(None) after the last column, where
\* the visitor of the struct ends (a field it was not given is missing
\* unless optional); else field_name is set from the next column's name.
NextKeySeed ==
  /\ de_result = "key"
  /\ IF column_index >= Len(de_row.column_names)
     THEN /\ de_result' =
               IF \A n \in 1..Len(de_row.fields) :
                    \/ de_row.fields[n].optional
                    \/ \E d \in 1..Len(decoded) : decoded[d].key = de_row.fields[n].key
               THEN "Ok" ELSE "Err"
          /\ UNCHANGED <<field_name, column_index>>
     ELSE /\ field_name' = to_pascal_case(de_row.column_names[column_index + 1])
          /\ column_index' = column_index + 1
          /\ de_result' = "value"
  /\ UNCHANGED <<pipeline, key, column_name, records, count, create_stmt, insert_stmt,
                 bindings, de_row, decoded>>

\* next_value_seed of the RowExtractor: every deserialize_* of the
\* SqlDeserializer reads the column of the row named field_name.  The read
\* of a column the row does not have fails in the sqlite crate: by a panic
\* or, through try_read, by an Err.
NextValueSeed ==
  /\ de_result = "value"
  /\ IF ColumnOf(field_name) = {}
     THEN /\ de_result' \in {"panicked", "Err"}
          /\ decoded' = decoded
     ELSE /\ de_result' = "key"
          /\ decoded' =
               IF FieldOf(field_name) = {} THEN decoded
               ELSE Append(decoded,
                      [key |-> field_name,
                       value |-> DecodeValue(de_row.fields[CHOOSE n \in FieldOf(field_name) : TRUE],
                                             de_row.values[CHOOSE n \in ColumnOf(field_name) : TRUE])])
  /\ UNCHANGED <<pipeline, key, column_name, field_name, records, count, create_stmt,
                 insert_stmt, bindings, de_row, column_index>>

InitRow ==
  /\ PipelineIdle
  /\ key = <<>> /\ column_name = <<>> /\ field_name = <<>>
  /\ records = <<>> /\ count = 0
  /\ create_stmt = <<>> /\ insert_stmt = <<>> /\ bindings = <<>>
  /\ de_row \in StoredRows
  /\ column_index = 0 /\ decoded = <<>> /\ de_result = "key"
NextRow == NextKeySeed \/ NextValueSeed
SpecRow == InitRow /\ [][NextRow]_vars

\* ------------------------------------------------------------------ claims
Terminal(i) == jobs[i].state.tag \in {"Done", "Error"}
ActiveJobs == {i \in JobIds : jobs[i].state.tag \notin {"Wait", "Done", "Error"}}
UnfinishedTasks == {i \in JobIds : pc[i] \notin {"unspawned", "finished", "panicked", "killed"}}
InSchedulerLoop == main_pc \in {"spawn", "await", "drain"}
Drained == main_pc \in {"returned", "panicked"}

\* C1: with a bound N >= 1, at every point of the scheduler loop at most N
\* jobs are in a state other than Wait, Done or Error, and at most N tasks
\* are spawned and unfinished.
C1_BoundedConcurrency ==
  (InSchedulerLoop /\ max_threads >= 1) =>
    /\ Cardinality(ActiveJobs) <= max_threads
    /\ Cardinality(UnfinishedTasks) <= max_threads

\* C2: once the final wait loop of main has drained, every job is Done or
\* Error.
C2_Completion == Drained => \A i \in JobIds : Terminal(i)

\* C3: every job starts in Wait, and once a job is Done or Error no step
\* changes the state of that job.
C3_TerminalAbsorbing ==
  /\ [](\A i \in JobIds : pc[i] = "unspawned" => jobs[i].state = Wait)
  /\ [][\A i \in JobIds : Terminal(i) => jobs'[i].state = jobs[i].state]_vars

\* A run has ended with one job in Error and another one Done.
C3_Witness ==
  /\ Drained
  /\ \E i, j \in JobIds : jobs[i].state.tag = "Error" /\ jobs[j].state = Done

InLog(log, ev) == \E n \in 1..Len(log) : log[n] = ev
IsPrefix(s, t) == Len(s) <= Len(t) /\ s = SubSeq(t, 1, Len(s))
FullLog == <<<<"download", "start">>, <<"download", "ok">>,
             <<"unzip", "start">>, <<"unzip", "ok">>,
             <<"parse", "start">>, <<"parse", "ok">>>>
\* download, unzip, parse in that order, each at most once, each started
\* after the one before returned Ok; nothing follows an Err.
WellOrdered(log) ==
  \/ IsPrefix(log, FullLog)
  \/ /\ Len(log) >= 2
     /\ IsPrefix(SubSeq(log, 1, Len(log) - 1), FullLog)
     /\ log[Len(log) - 1][2] = "start"
     /\ log[Len(log)] = <<log[Len(log) - 1][1], "err">>

\* C4: for every job, process() runs download, unzip, parse in that order,
\* each at most once, a stage only after the one before returned Ok, and the
\* job is Done only after parse returned Ok.
C4_StageOrder ==
  \A i \in JobIds :
    /\ WellOrdered(stage_log[i])
    /\ jobs[i].state = Done => stage_log[i] = FullLog

\* One job is Done after its three stages while another one stopped at a
\* failed unzip.
C4_Witness ==
  \E i, j \in JobIds :
    /\ jobs[i].state = Done /\ stage_log[i] = FullLog
    /\ stage_log[j] = SubSeq(FullLog, 1, 3) \o <<<<"unzip", "err">>>>

SiteOf(path) == get_site_from_filepath(get_data_path(path))
Faulted(i) == \E n \in 1..Len(faults) : faults[n] = i
\* The terminal state of a job that runs with no failure and no other job.
AloneOutcome(path) ==
  IF ArchiveKinds(path) = Kinds THEN Done
  ELSE Error(<<"parsing error:", "file do not exists">>)

\* C5: a failure of a stage of one job, a panic under the guard of the jobs
\* mutex included, leaves every other job its own outcome: after the run a
\* job no failure hit, and that shares its site with no other job, is in the
\* terminal state it reaches when it runs alone.
C5_FailureIsolation ==
  Drained =>
    \A i \in JobIds :
      (/\ ~Faulted(i)
       /\ \A j \in JobIds \ {i} : SiteOf(jobs[j].filepath) # SiteOf(jobs[i].filepath))
      => jobs[i].state = AloneOutcome(jobs[i].filepath)

StageTag(stage) ==
  IF stage = "download" THEN "download error:"
  ELSE IF stage = "unzip" THEN "decompression error:" ELSE "parsing error:"

\* C6: when a stage of a job has returned Err and its task has ended, the job
\* is in Error, the message begins with the tag of that stage and, for a
\* download, contains the url of the job.
C6_ErrorTagging ==
  \A i \in JobIds : \A stage \in Stages :
    (Ended(i) /\ InLog(stage_log[i], <<stage, "err">>)) =>
      /\ jobs[i].state.tag = "Error"
      /\ Head(jobs[i].state.msg) = StageTag(stage)
      /\ stage = "download" => InLog(jobs[i].state.msg, jobs[i].url)

InStore(i) == pc[i] \in {"table_exists", "inject_row", "inject_end"}

\* C7: at most one task at a time is inside table_exists() or inject(); the
\* task that is holds the write token, and a transaction is open only in the
\* task that holds it, from BEGIN TRANSACTION to END TRANSACTION or the
\* error return.
C7_WriteToken ==
  /\ Cardinality({i \in JobIds : InStore(i)}) <= 1
  /\ \A i \in JobIds :
       /\ InStore(i) => mutex = i
       /\ txn[i].open => (mutex = i /\ pc[i] \in {"inject_row", "inject_end"})

\* One task has inserted rows in its transaction while another one is about
\* to take the write token.
C7_Witness ==
  \E i, j \in JobIds :
    /\ i # j
    /\ pc[i] = "inject_row" /\ txn[i].rows # {}
    /\ pc[j] \in {"parse", "load_next", "inject"}

C9_WholeTableIdempotence ==
  [][\A i \in JobIds :
       (/\ pc[i] = "table_exists"
        /\ store[TableName(jobs[i].filepath, loc[i].k)].exists
        /\ pc'[i] # pc[i])
       => /\ pc'[i] \in {"load_next", "finished", "panicked", "killed"}
          /\ store' = store
          /\ jobs'[i].state.tag # "Error"]_vars

\* The existence check of a kind runs, the table is there and the source
\* file of the kind is not.
C9_Witness ==
  \E i \in JobIds :
    /\ pc[i] = "table_exists"
    /\ store[TableName(jobs[i].filepath, loc[i].k)].exists
    /\ fs_files[<<get_data_path(jobs[i].filepath), loc[i].k>>] = -1

\* The remote content of a job is the same in the previous run and in this
\* one: neither GET was answered with an error page.
SameRemoteContent(i) == i \notin prev_run.bad_status /\ i \notin bad_status

\* C10: in a run after one in which the download of a job with a url
\* returned Ok, the remote content being the same, the download of that job
\* pulls no chunk of the body, never enters the chunk loop, leaves the local
\* file at the length of the remote content, and returns Ok when nothing
\* fails.
C10_IdempotentDownload ==
  \A i \in JobIds :
    (/\ run > 1 /\ jobs[i].url # ""
     /\ InLog(prev_log[i], <<"download", "ok">>)
     /\ SameRemoteContent(i)) =>
      /\ body_bytes[i] = 0
      /\ pc[i] # "dl_chunk"
      /\ fs_archive[jobs[i].filepath] = RemoteLength(jobs[i].filepath)
      /\ (faults = <<>> /\ pc[i] \notin {"unspawned", "download", "dl_state"})
           => InLog(stage_log[i], <<"download", "ok">>)

\* The download of a job with a url has returned Ok in two runs in a row.
C10_Witness ==
  \E i \in JobIds :
    /\ run > 1 /\ jobs[i].url # "" /\ SameRemoteContent(i)
    /\ InLog(prev_log[i], <<"download", "ok">>)
    /\ InLog(stage_log[i], <<"download", "ok">>)

\* The entry the closure of unzip is about to visit, its destination and its
\* declared size.
EntryOf(i) == NextEntry(jobs[i].filepath, loc[i].k)
DestOf(i) == <<get_data_path(jobs[i].filepath), EntryOf(i)>>
Stepped(i) == pc'[i] # pc[i] \/ loc'[i] # loc[i]

\* C11: when the closure of unzip visits an entry whose destination file has
\* the declared size, the step leaves every extracted file and the state of
\* the job as they are, does not count the entry in uncompressed_size, and
\* goes on to the next entry of the archive: unzip returns only after the
\* last entry.
C11_IdempotentExtraction ==
  [][\A i \in JobIds :
       (/\ pc[i] = "unzip_entry"
        /\ AlreadyUnzipped(DestOf(i), EntrySize(jobs[i].filepath, EntryOf(i)))
        /\ Stepped(i))
       => /\ fs_files' = fs_files
          /\ jobs'[i].state = jobs[i].state
          /\ pc'[i] \in {"unzip_entry", "parse", "panicked", "killed"}
          /\ pc'[i] = "unzip_entry" => loc'[i] = [loc[i] EXCEPT !.k = EntryOf(i)]
          /\ pc'[i] = "parse" => EntriesAfter(jobs[i].filepath, EntryOf(i)) = {}]_vars

\* The closure visits an entry that is already extracted while another entry
\* of the same archive is not.
C11_Witness ==
  \E i \in JobIds :
    /\ pc[i] = "unzip_entry"
    /\ AlreadyUnzipped(DestOf(i), EntrySize(jobs[i].filepath, EntryOf(i)))
    /\ \E e \in EntriesAfter(jobs[i].filepath, EntryOf(i)) :
         ~AlreadyUnzipped(<<get_data_path(jobs[i].filepath), e>>, EntrySize(jobs[i].filepath, e))

\* C12: once unzip has returned Ok for a job, every entry of its archive has
\* a file of the declared size in the directory named after the stem of the
\* archive, whatever the total size of the archive.
C12_FullExtraction ==
  \A i \in JobIds :
    InLog(stage_log[i], <<"unzip", "ok">>) =>
      \A e \in ArchiveKinds(jobs[i].filepath) :
        fs_files[<<get_data_path(jobs[i].filepath), e>>] = EntrySize(jobs[i].filepath, e)

\* The job ended Done in the previous run and the remote answers as before.
PrevDone(i) == run > 1 /\ prev_run.states[i] = Done /\ SameRemoteContent(i)

\* C13: in a run after one in which a job ended Done, with the same remote
\* length and the same extracted files, the job pulls no chunk of the body,
\* no extracted file of its directory changes, its transactions insert no
\* row, and it is Done when the run ends without a new failure.
C13_ResumedRun ==
  /\ [](\A i \in JobIds :
          PrevDone(i) =>
            /\ body_bytes[i] = 0
            /\ txn[i].rows = {}
            /\ (Drained /\ Len(faults) = prev_run.faults) => jobs[i].state = Done)
  /\ [][\A i \in JobIds :
          (PrevDone(i) /\ run' = run) =>
            \A k \in Kinds :
              fs_files'[<<get_data_path(jobs[i].filepath), k>>]
                = fs_files[<<get_data_path(jobs[i].filepath), k>>]]_vars

\* The rows of all the records of the file of kind k of an archive.
RowsOfFile(path, k) == {<<get_data_path(path), n>> : n \in 1..ArchiveRecords(path, k)}

\* C14: a run over a fresh store of one job whose archive holds only some of
\* the entity files, with no failure, ends with the job Done and, for every
\* entity file of the archive, its table holding one row per record.
C14_PartialArchive ==
  (/\ Drained /\ Len(jobs) = 1 /\ faults = <<>>
   /\ ArchiveKinds(jobs[1].filepath) # Kinds)
  => /\ jobs[1].state = Done
     /\ \A k \in ArchiveKinds(jobs[1].filepath) :
          /\ store[TableName(jobs[1].filepath, k)].exists
          /\ store[TableName(jobs[1].filepath, k)].rows = RowsOfFile(jobs[1].filepath, k)

\* C15: a job whose GET was answered with a status that is not a success
\* has failed in download: its task is over, no chunk of the body was pulled
\* or written, unzip was never started, and the job is in Error with the
\* download tag.
C15_StatusCheck ==
  \A i \in JobIds :
    i \in bad_status =>
      /\ pc[i] \in {"finished", "panicked", "killed"}
      /\ body_bytes[i] = 0
      /\ ~InLog(stage_log[i], <<"unzip", "start">>)
      /\ pc[i] = "finished" =>
           (jobs[i].state.tag = "Error" /\ Head(jobs[i].state.msg) = "download error:")

\* C16: a task that ended inside unzip, the jobs mutex not being poisoned,
\* ended on a failure to open the archive, to create a directory or a file,
\* to read an entry or to write it: its job is in Error with the
\* decompression tag and parse was never started.
C16_ArchiveFailure ==
  \A i \in JobIds :
    (/\ Ended(i) /\ ~jobs_poisoned
     /\ InLog(stage_log[i], <<"unzip", "start">>)
     /\ ~InLog(stage_log[i], <<"unzip", "ok">>))
    => /\ jobs[i].state.tag = "Error"
       /\ Head(jobs[i].state.msg) = "decompression error:"
       /\ ~InLog(stage_log[i], <<"parse", "start">>)

\* The kind a task in the parse stage is at: its table is absent and its
\* source file is missing.
MissingSource(i) ==
  /\ pc[i] \in {"table_exists", "load"}
  /\ ~store[TableName(jobs[i].filepath, loc[i].k)].exists
  /\ fs_files[<<get_data_path(jobs[i].filepath), loc[i].k>>] = -1

\* C17: when parse is at a kind whose table is absent and whose source file
\* is missing, the existence check sends the task into the load, the load
\* ends the task with the job in Error with the parsing tag, the store is
\* left as it is, and the task never goes on to a later kind.
C17_MissingSourceFile ==
  [][\A i \in JobIds :
       (MissingSource(i) /\ Stepped(i)) =>
         /\ store' = store
         /\ pc[i] = "table_exists" => pc'[i] \in {"load", "killed"}
         /\ pc[i] = "load" =>
              /\ pc'[i] \in {"finished", "killed"}
              /\ pc'[i] = "finished" =>
                   /\ jobs'[i].state.tag = "Error"
                   /\ Head(jobs'[i].state.msg) = "parsing error:"]_vars

\* C19: for every attribute name '@' + PascalCase, to_pascal_case gives the
\* name back from the column name sanitize_key made of it, and sanitize_key
\* gives the column name back from that.
C19_ColumnNameRoundTrip ==
  field_name # <<>> =>
    /\ field_name = key
    /\ sanitize_key(field_name) = column_name

\* A name with two capitals in a row and a digit went through both
\* functions.
C19_Witness ==
  /\ field_name # <<>>
  /\ \E n \in 1..(Len(key) - 1) : key[n] \in UpperChars /\ key[n + 1] \in UpperChars
  /\ \E n \in 1..Len(key) : key[n] \in DigitChars
  /\ \E n \in 1..Len(column_name) : column_name[n] = "_"

\* C18: for every record of a stream, bind_stmt returns as many values as
\* to_init_table made columns and '?' placeholders from the first record,
\* and the i-th bound value is the value of the record's i-th field, whose
\* name is the i-th column of the CREATE and of the INSERT statement.
C18_PositionalAlignment ==
  count > 0 =>
    LET tag == records[count]
    IN /\ Len(bindings) = Len(tag.fields)
       /\ Len(bindings) = Len(create_stmt.columns)
       /\ Len(bindings) = Len(insert_stmt.columns)
       /\ Len(bindings) = Len(insert_stmt.placeholders)
       /\ \A n \in 1..Len(tag.fields) :
            /\ n <= Len(bindings) /\ n <= Len(create_stmt.columns)
            /\ n <= Len(insert_stmt.columns)
            /\ bindings[n] = bind_stmt([table |-> tag.table, fields |-> <<tag.fields[n]>>])[1]
            /\ create_stmt.columns[n].name = sanitize_key(tag.fields[n].key)
            /\ insert_stmt.columns[n] = sanitize_key(tag.fields[n].key)

\* The second record of a stream was bound, with an optional field absent
\* that the first record, which gave the statements, had present.
C18_Witness ==
  /\ count = 2
  /\ \E n \in 1..Len(records[1].fields) :
       /\ records[1].fields[n].value.opt = "some"
       /\ records[2].fields[n].value.opt = "none"
       /\ n < Len(records[2].fields)
       /\ bindings[n] = "NULL"

\* The SQL type of a native kind.
NativeType(kind) ==
  CASE kind \in {"bool", "str"} -> "TEXT"
    [] kind = "int" -> "INTEGER"
    [] kind = "float" -> "REAL"
TypeOfTable(table) == CHOOSE T \in RecordTypes : T.table = table

\* C20: the declared type of every column but 'id' is TEXT for a boolean or
\* a string, INTEGER for an integer, REAL for a float, and for an optional
\* field it is the same whether the first record has the field present or
\* absent: no other first record of the stream's type gives the column
\* another type.
C20_SchemaInference ==
  count > 0 =>
    \A n \in 1..Len(records[1].fields) :
      LET value == records[1].fields[n].value
          column == create_stmt.columns[n]
      IN column.name # <<"i", "d">> =>
           /\ (value.opt # "none" /\ value.kind \in {"bool", "str", "int", "float"})
                => column.type = NativeType(value.kind)
           /\ \A other \in RecordsOf(TypeOfTable(records[1].table)) :
                to_init_table(other).create_stmt.columns[n].type = column.type

\* C21: for every record bound to the insert, the value bound for an enum
\* field is the decimal form of the discriminant of its variant (Gold gives
\* "1"), never the name of the variant.
C21_EnumBinding ==
  count > 0 =>
    \A n \in 1..Len(records[count].fields) :
      LET value == records[count].fields[n].value
      IN value.kind = "enum" =>
           /\ bindings[n] = ToString(value.num)
           /\ bindings[n] # value.text

\* C22: from_row reads every value from a column the row has, and it ends
\* with Ok and every field of the record equal to the value stored in the
\* column of the field's name, the enum field being the variant of the
\* stored number.
C22_RowDecoding ==
  /\ field_name # <<>> => ColumnOf(field_name) # {}
  /\ de_result \notin {"key", "value"} =>
       /\ de_result = "Ok"
       /\ \A n \in 1..Len(de_row.fields) :
            \E d \in 1..Len(decoded) :
              /\ decoded[d].key = de_row.fields[n].key
              /\ decoded[d].value.num = de_row.record.fields[n].value.num
              /\ de_row.fields[n].kind = "str" =>
                   decoded[d].value.text = de_row.record.fields[n].value.text

\* The step is a failure of the store that hits task i.
FailsNow(i) == Len(faults') = Len(faults) + 1 /\ faults'[Len(faults')] = i

\* C23: when table_exists returns an error of the store for a kind, the
\* task ends there with the job in Error with the parsing tag: the kind is
\* not passed over as if it were loaded and the job does not go on to Done.
C23_ExistenceCheckFailure ==
  [][\A i \in JobIds :
       (pc[i] = "table_exists" /\ FailsNow(i))
       => /\ pc'[i] = "finished"
          /\ jobs'[i].state.tag = "Error"
          /\ Head(jobs'[i].state.msg) = "parsing error:"]_vars

\* C24: the progress marker advances on a skip: when parse passes over a kind
\* whose table already exists and goes on to the next one, the state of the
\* job is Parsing with the percentage and the file of the kind passed over.
C24_ProgressMarker ==
  [][\A i \in JobIds :
       (/\ pc[i] = "table_exists" /\ pc'[i] = "load_next"
        /\ store[TableName(jobs[i].filepath, loc[i].k)].exists
        /\ faults' = faults)
       => jobs'[i].state = Parsing(Completion[loc[i].k],
                                   <<get_data_path(jobs[i].filepath), loc[i].k>>)]_vars

SomeHung == max_threads >= 2 /\ \E i \in JobIds : pc[i] = "hung"
OthersTerminal == \A j \in JobIds : pc[j] # "hung" => Terminal(j)

\* C25: when the task of one job hangs in a network or store operation and
\* fewer jobs hang than max_threads, every other job eventually is Done or
\* Error.
C25_HangIsolation == SomeHung ~> OthersTerminal

\* C26: jobs are spawned in the order of the job list; the wait of the for
\* loop ends as soon as one spawned task has ended, takes that one handle
\* only and goes on to spawn the next job; unless the program is
\* interrupted, every job of the list is eventually spawned.
C26_StreamingAdmission ==
  /\ [][\A i \in JobIds :
          (pc[i] = "unspawned" /\ pc'[i] # "unspawned")
          => (i = index /\ \A j \in 1..(i - 1) : pc[j] # "unspawned")]_vars
  /\ [][(main_pc = "await" /\ main_pc' \notin {"await", "interrupted"})
          => /\ Cardinality(tokio_jobs') = Cardinality(tokio_jobs) - 1
             /\ main_pc' = IF index < Len(jobs) THEN "spawn" ELSE "drain"]_vars
  /\ []((main_pc = "await" /\ \E i \in tokio_jobs : Ended(i)) => ENABLED AwaitOne)
  /\ <>(main_pc = "interrupted" \/ \A i \in JobIds : pc[i] # "unspawned")

\* The third job was spawned after one of the two running jobs ended, while
\* the other one is still running.
C26_Witness ==
  /\ max_threads = 2 /\ Len(jobs) = 3
  /\ pc[3] \notin {"unspawned", "killed"}
  /\ \E j \in {1, 2} : pc[j] \notin {"unspawned", "finished", "panicked", "killed"}

\* C27: for every value of max_threads, 0 included, the number of tasks that
\* are spawned and unfinished never exceeds max_threads.
C27_BoundForEveryValue == Cardinality(UnfinishedTasks) <= max_threads

\* C28: a table receives rows from one load only: no task is inside the
\* transaction of inject for a table that already exists, since the job
\* that comes second to a table sees it in its existence check and skips it.
C28_SingleLoader ==
  \A i \in JobIds :
    (pc[i] \in {"inject_row", "inject_end"} /\ txn[i].open)
    => ~store[TableName(jobs[i].filepath, loc[i].k)].exists

ParseFailsNow(i) ==
  /\ pc[i] \in {"load", "inject", "inject_row", "inject_end"}
  /\ pc'[i] = "finished" /\ jobs'[i].state.tag = "Error"

\* C29: when the parse stage of a job fails at a kind in the first run, the
\* tables of the earlier kinds are there with all their rows and there is no
\* table of that kind or of a later one; in a later run the load of a kind
\* runs with the tables of the earlier kinds there, on a table that does not
\* exist yet, and inserts the records from the first one on.
C29_WholeTableResume ==
  /\ [][\A i \in JobIds :
          (run = 1 /\ ParseFailsNow(i))
          => \A e \in Kinds :
               LET t == TableName(jobs[i].filepath, e)
               IN IF e < loc[i].k
                  THEN /\ store'[t].exists
                       /\ store'[t].rows = RowsOfFile(jobs[i].filepath, e)
                  ELSE ~store'[t].exists /\ store'[t].rows = {}]_vars
  /\ [](\A i \in JobIds :
          (run > 1 /\ pc[i] = "inject_row")
          => /\ \A e \in 1..(loc[i].k - 1) : store[TableName(jobs[i].filepath, e)].exists
             /\ ~store[TableName(jobs[i].filepath, loc[i].k)].exists
             /\ txn[i].rows = {<<get_data_path(jobs[i].filepath), n>> : n \in 1..loc[i].n})

\* C30: no task holds the guard of jobs and the write token at the same
\* time, no task locks a Mutex it already holds, and whenever a task is
\* unfinished some task can take its next step: the unfinished tasks are
\* never all blocked on a lock.
C30_NoLockDeadlock ==
  /\ \A i \in JobIds : ~(jobs_guard = i /\ mutex = i)
  /\ \A i \in JobIds : pc[i] # "self_deadlock"
  /\ UnfinishedTasks # {} =>
       \E i \in UnfinishedTasks : ENABLED (LockAcquire(i) \/ LockRelease(i))

\* One task is inside table_exists or inject with the write token, another
\* one holds the guard of jobs, and the first comes to a statement that
\* locks jobs next.
C30_Witness ==
  \E i, j \in JobIds :
    /\ i # j
    /\ mutex = i /\ pc[i] \in MutexNodes
    /\ jobs_guard = j /\ pc[j] \in JobsNodes

====
